---- MODULE Spec2Model ----
(***************************************************************************)
(* A model of the class API_to_data of src/APIdata.py: a client session   *)
(* for the tabular-data API of Statistics Norway.  Python strings that    *)
(* the code inspects or rewrites character by character are sequences of  *)
(* one-character strings; names that are only compared are TLA+ strings.  *)
(***************************************************************************)
EXTENDS Integers, Sequences, FiniteSets, TLC

VARIABLES
    language,    \* self.language
    furl,        \* self.furl: the metadata URL, None until first resolved
    variables,   \* self.variables: the list select stored last
    time,        \* self.time: set by prepare_dataframe
    boxes,       \* the widget containers select returned and the caller kept
    history,     \* one entry per get_variables/select call: identifier and GETs
    last,        \* the most recent step: operation, exception, requests, result
    phrase,      \* the phrase the caller searches for
    searches     \* the search URLs built so far in this session, in order

vars == <<language, furl, variables, time, boxes, history, last, phrase, searches>>

----------------------------------------------------------------------------
(* Bounds of the model. *)

\* how many get_variables/select calls one session makes
MaxCalls == 2
\* how many returned boxes the caller keeps
MaxBoxes == 1
\* longest search phrase
MaxPhraseLen == 2
\* how often one phrase is searched for
MaxSearches == 2
\* how many tokens of a text are lexed in one go
ChunkLen == 12

----------------------------------------------------------------------------
(* Python values. *)

\* an optional value: None, or a value
None == [isNone |-> TRUE, v |-> <<>>]
Some(x) == [isNone |-> FALSE, v |-> x]

Min(a, b) == IF a <= b THEN a ELSE b

Digits == <<"0", "1", "2", "3", "4", "5", "6", "7", "8", "9">>

IsDigit(c) == \E i \in 1..10 : Digits[i] = c

DigitVal(c) == (CHOOSE i \in 1..10 : Digits[i] = c) - 1

\* str(n) for an int n >= 0
RECURSIVE StrOfInt(_)
StrOfInt(n) ==
    IF n < 10 THEN <<Digits[n + 1]>>
    ELSE StrOfInt(n \div 10) \o <<Digits[(n % 10) + 1]>>

\* the value of a string of decimal digits
RECURSIVE DigitsValue(_)
DigitsValue(s) ==
    IF s = <<>> THEN 0
    ELSE 10 * DigitsValue(SubSeq(s, 1, Len(s) - 1)) + DigitVal(s[Len(s)])

\* a table_id argument: an int, a str, or the default None
IntId(n) == [kind |-> "int", n |-> n, s |-> <<>>]
StrId(s) == [kind |-> "str", n |-> 0, s |-> s]
NoneId == [kind |-> "none", n |-> 0, s |-> <<>>]

\* int(table_id): its value, or the exception it raises
PyInt(table_id) ==
    CASE table_id.kind = "int" -> [exc |-> "none", n |-> table_id.n]
      [] table_id.kind = "none" -> [exc |-> "TypeError", n |-> 0]
      [] OTHER ->
            IF table_id.s # <<>> /\ \A i \in 1..Len(table_id.s) : IsDigit(table_id.s[i])
            THEN [exc |-> "none", n |-> DigitsValue(table_id.s)]
            ELSE [exc |-> "ValueError", n |-> 0]

\* s.replace(k, v) for a one-character k (computed by halves, which keeps
\* the evaluation shallow on long strings)
RECURSIVE Replace(_, _, _)
Replace(s, k, v) ==
    IF s = <<>> THEN <<>>
    ELSE IF Len(s) = 1 THEN (IF s[1] = k THEN v ELSE s)
    ELSE LET h == Len(s) \div 2 IN
         Replace(SubSeq(s, 1, h), k, v) \o Replace(SubSeq(s, h + 1, Len(s)), k, v)

\* k in s, for a one-character k
Contains(s, k) == \E i \in 1..Len(s) : s[i] = k

----------------------------------------------------------------------------
(* The remote API.  Two published tables; every other URL is not found. *)

base_url == <<"h", "t", "t", "p", ":", "/", "/", "d", "a", "t", "a", ".", "s", "s", "b", ".", "n", "o", "/", "a", "p", "i", "/", "v", "0">>

Languages == {"en", "no"}

LangChars(l) == IF l = "en" THEN <<"e", "n">> ELSE <<"n", "o">>

Variable(code, text, values, valueTexts) ==
    [code |-> code, text |-> text, values |-> values, valueTexts |-> valueTexts]

\* table 01234: two municipalities share the label "Os"
TableA ==
    [title |-> <<"0", "1", "2", "3", "4", ":", " ", "P", "o", "p", "u", "l", "a", "t", "i", "o", "n">>,
     variables |-> <<
        Variable(<<"R", "e", "g", "i", "o", "n">>, <<"r", "e", "g", "i", "o", "n">>, <<<<"1", "2", "4", "3">>, <<"0", "4", "4", "1">>>>, <<<<"O", "s">>, <<"O", "s">>>>),
        Variable(<<"T", "i", "d">>, <<"y", "e", "a", "r">>, <<<<"2", "0", "1", "9">>, <<"2", "0", "2", "0">>>>, <<<<"2", "0", "1", "9">>, <<"2", "0", "2", "0">>>>) >>]

\* table 12345: one machine value holds an apostrophe
TableB ==
    [title |-> <<"1", "2", "3", "4", "5", ":", " ", "T", "r", "a", "d", "e">>,
     variables |-> <<
        Variable(<<"L", "a", "n", "d">>, <<"c", "o", "u", "n", "t", "r", "y">>, <<<<"N", "O">>, <<"C", "I", "'", "d">>>>, <<<<"N", "o", "r", "w", "a", "y">>, <<"I", "v", "o", "r", "y", " ", "C", "o", "a", "s", "t">>>>) >>]

\* '{base_url}/{language}/table/{table_id}'.format(...)
MetadataUrl(b, l, id) == b \o <<"/">> \o LangChars(l) \o <<"/", "t", "a", "b", "l", "e", "/">> \o id

\* GET url on the metadata endpoint
ServerGet(l, url) ==
    CASE url = MetadataUrl(base_url, l, <<"0", "1", "2", "3", "4">>) -> [status |-> 200, table |-> TableA]
      [] url = MetadataUrl(base_url, l, <<"1", "2", "3", "4", "5">>) -> [status |-> 200, table |-> TableB]
      [] OTHER -> [status |-> 404, table |-> [title |-> <<>>, variables |-> <<>>]]

----------------------------------------------------------------------------
(* get_variables *)

\* the local numb after the try block: unbound when int() raised ValueError,
\* else the text format() renders for it
Numb(table_id) ==
    LET r == PyInt(table_id) IN
    IF r.exc # "none" THEN [bound |-> FALSE, text |-> <<>>]
    ELSE IF Len(StrOfInt(r.n)) = 4
         THEN [bound |-> TRUE, text |-> <<"0">> \o StrOfInt(r.n)]
         ELSE [bound |-> TRUE, text |-> StrOfInt(r.n)]

\* the URL get_variables stores when self.furl is None
ResolveUrl(cur, l, table_id) ==
    IF cur.isNone THEN Some(MetadataUrl(base_url, l, Numb(table_id).text)) ELSE cur

\* the whole of get_variables on a session whose self.furl is cur:
\* the exception raised, self.furl afterwards, GET requests issued, value returned
get_variables(cur, l, table_id) ==
    LET r == PyInt(table_id) IN
    IF r.exc = "TypeError"
    THEN [exc |-> "TypeError", furl |-> cur, gets |-> 0, ret |-> <<>>]
    ELSE IF cur.isNone /\ ~Numb(table_id).bound
    THEN [exc |-> "UnboundLocalError", furl |-> cur, gets |-> 0, ret |-> <<>>]
    ELSE LET url == ResolveUrl(cur, l, table_id)
             resp == ServerGet(l, url.v)
         IN  IF resp.status # 200
             THEN [exc |-> "HTTPError", furl |-> url, gets |-> 1, ret |-> <<>>]
             ELSE [exc |-> "none", furl |-> url, gets |-> 1, ret |-> resp.table.variables]

\* the identifiers callers pass
TableIds ==
    {IntId(1234), StrId(<<"0", "1", "2", "3", "4">>), StrId(<<"1", "2", "3", "4", "5">>), StrId(<<"0", "0", "1", "2", "3">>),
     StrId(<<"a", "b">>), NoneId}

Result(op, arg, exc, gets, posts, ret) ==
    [op |-> op, arg |-> arg, exc |-> exc, gets |-> gets, posts |-> posts, ret |-> ret]

GetVariables(table_id) ==
    /\ Len(history) < MaxCalls
    /\ \E r \in {get_variables(furl, language, table_id)} :
        /\ furl' = r.furl
        /\ history' = Append(history, [id |-> table_id, gets |-> r.gets])
        /\ last' = Result("get_variables", table_id, r.exc, r.gets, 0, r.ret)
    /\ UNCHANGED <<language, variables, time, boxes, phrase, searches>>

----------------------------------------------------------------------------
(* select *)

\* zip(a, b)
Zip(a, b) == [i \in 1..Min(Len(a), Len(b)) |-> <<a[i], b[i]>>]

\* d[k] = v on an OrderedDict held as its items in insertion order
SetItem(d, k, v) ==
    IF \E i \in 1..Len(d) : d[i][1] = k
    THEN [i \in 1..Len(d) |-> IF d[i][1] = k THEN <<k, v>> ELSE d[i]]
    ELSE Append(d, <<k, v>>)

\* OrderedDict(pairs): its items
RECURSIVE OrderedDict(_)
OrderedDict(pairs) ==
    IF pairs = <<>> THEN <<>>
    ELSE LET n == Len(pairs) IN
         SetItem(OrderedDict(SubSeq(pairs, 1, n - 1)), pairs[n][1], pairs[n][2])

\* option_list[var]
option_list(var) == OrderedDict(Zip(var.valueTexts, var.values))

\* SelectMultiple(options = ...): the (label, value) options, nothing selected
SelectMultiple(options) == [options |-> options, value |-> <<>>]

\* the VBox select returns: children[0] headline, children[2] the Tab of
\* selection widgets with its titles, children[3] the URL label
selection_container(table_title, vs, url) ==
    [headline |-> table_title,
     widgets |-> [x \in 1..Len(vs) |-> SelectMultiple(option_list(vs[x]))],
     titles |-> [x \in 1..Len(vs) |-> vs[x].text],
     url_text |-> url]

Select(table_id) ==
    /\ Len(history) < MaxCalls
    /\ \E r \in {get_variables(furl, language, table_id)} :
        /\ furl' = r.furl
        /\ history' = Append(history, [id |-> table_id, gets |-> r.gets])
        /\ IF r.exc # "none"
           THEN /\ last' = Result("select", table_id, r.exc, r.gets, 0, <<>>)
                /\ UNCHANGED <<variables, boxes>>
           ELSE LET table_info == ServerGet(language, r.furl.v).table
                    box == selection_container(table_info.title, r.ret, r.furl.v)
                IN  /\ variables' = Some(r.ret)
                    /\ boxes' = IF Len(boxes) < MaxBoxes THEN Append(boxes, box) ELSE boxes
                    /\ last' = Result("select", table_id, "none", r.gets + 1, 0, box)
    /\ UNCHANGED <<language, time, phrase, searches>>

\* the values of the options at the indices in S, in option order
RECURSIVE SelectedValues(_, _, _)
SelectedValues(options, S, i) ==
    IF i > Len(options) THEN <<>>
    ELSE (IF i \in S THEN <<options[i][2]>> ELSE <<>>) \o SelectedValues(options, S, i + 1)

\* the user marks the options S of widget x of kept box b
UserSelect(b, x, S) ==
    /\ boxes' = [boxes EXCEPT ![b].widgets[x].value =
                    SelectedValues(boxes[b].widgets[x].options, S, 1)]
    /\ boxes' # boxes
    /\ last' = Result("user_select", NoneId, "none", 0, 0, <<>>)
    /\ UNCHANGED <<language, furl, variables, time, history, phrase, searches>>

----------------------------------------------------------------------------
(* str(), repr() and ast.literal_eval on the strings get_json builds *)

\* sep.join(parts)
RECURSIVE Join(_, _)
Join(sep, parts) ==
    IF parts = <<>> THEN <<>>
    ELSE IF Len(parts) = 1 THEN parts[1]
    ELSE parts[1] \o sep \o Join(sep, Tail(parts))

\* repr(s) of a str of printable characters: double quotes when s holds an
\* apostrophe and no double quote, single quotes otherwise; backslashes and
\* the delimiting quote escaped
PyRepr(s) ==
    LET q == IF Contains(s, "'") /\ ~Contains(s, "\"") THEN "\"" ELSE "'"
        esc == Replace(s, "\\", <<"\\", "\\">>)
        body == IF q = "'" THEN Replace(esc, "'", <<"\\", "'">>) ELSE esc
    IN  <<q>> \o body \o <<q>>

\* str(list_of_str)
StrOfList(items) ==
    <<"[">> \o Join(<<",", " ">>, [i \in 1..Len(items) |-> PyRepr(items[i])]) \o <<"]">>

\* a Python value literal_eval can yield here: a str, a list, a dict (its
\* items, in order)
PyStr(s) == [k |-> "str", s |-> s, items |-> <<>>]
PyList(items) == [k |-> "list", s |-> <<>>, items |-> items]
PyDict(items) == [k |-> "dict", s |-> <<>>, items |-> items]

Tok(t, s) == [t |-> t, s |-> s]

\* the one element of a singleton set; {F(v) : v \in {e}} computes e once
\* however often F uses v
One(S) == CHOOSE x \in S : TRUE

Punct == {"{", "}", "[", "]", ":", ","}

\* the backslashes directly before position j, not reaching below position i
BackslashRun(s, i, j) ==
    LET starts == {m \in i..j : \A n \in m..(j - 1) : s[n] = "\\"} IN
    j - (CHOOSE m \in starts : \A n \in starts : m <= n)

\* position j is not taken by a backslash escape of the literal whose
\* content starts at position i
Unescaped(s, i, j) ==
    j = i \/ s[j - 1] # "\\" \/ BackslashRun(s, i, j) % 2 = 0

\* the backslash at position m introduces an escape of a quote or backslash
Introducer(s, i, m) ==
    /\ s[m] = "\\"
    /\ Unescaped(s, i, m)
    /\ m < Len(s)
    /\ s[m + 1] \in {"\\", "'", "\""}

\* the characters of s at the positions in P, in order
Pick(s, P) ==
    [n \in 1..Cardinality(P) |-> s[CHOOSE p \in P : Cardinality({r \in P : r <= p}) = n]]

\* the closing quotes, within positions lo..hi, of a string literal opened
\* with quote q (three of them when triple) whose content starts at position i
Closes(s, i, q, triple, lo, hi) ==
    {j \in lo..hi :
        /\ s[j] = q
        /\ Unescaped(s, i, j)
        /\ triple => (j + 2 <= Len(s) /\ s[j + 1] = q /\ s[j + 2] = q)}

\* the rest of a string literal opened with quote q (three of them when
\* triple), its content starting at position i: its value and the position
\* after its closing quote (the quote is looked for nearby first)
ScanStr(s, i, q, triple) ==
    One({ One({
        IF closes = {} THEN [ok |-> FALSE, str |-> <<>>, next |-> Len(s) + 1]
        ELSE One({ [ok |-> TRUE,
                    str |-> Pick(s, {m \in i..(j - 1) : ~Introducer(s, i, m)}),
                    next |-> IF triple THEN j + 3 ELSE j + 1]
                   : j \in {m \in closes : \A n \in closes : m <= n} })
        : closes \in {IF near # {} THEN near
                      ELSE Closes(s, i, q, triple, i + ChunkLen + 1, Len(s))} })
      : near \in {Closes(s, i, q, triple, i, Min(i + ChunkLen, Len(s)))} })

\* the token at position i (no space there) and the position after it; an
\* "err" token stands for a string literal that is not closed
LexOne(s, i) ==
    IF s[i] \in Punct THEN [tok |-> Tok(s[i], <<>>), next |-> i + 1]
    ELSE IF s[i] \in {"\"", "'"}
    THEN LET triple == i + 2 <= Len(s) /\ s[i + 1] = s[i] /\ s[i + 2] = s[i] IN
         One({ IF r.ok THEN [tok |-> Tok("str", r.str), next |-> r.next]
               ELSE [tok |-> Tok("err", <<>>), next |-> Len(s) + 1]
               : r \in {ScanStr(s, IF triple THEN i + 3 ELSE i + 1, s[i], triple)} })
    ELSE [tok |-> Tok("name", <<s[i]>>), next |-> i + 1]

\* the first non-space position from i on (Len(s) + 1 when there is none)
RECURSIVE SkipSpaces(_, _)
SkipSpaces(s, i) ==
    IF i <= Len(s) /\ s[i] = " " THEN SkipSpaces(s, i + 1) ELSE i

\* acc and at most n more tokens of s from position i on, and the position
\* after them
RECURSIVE LexN(_, _, _, _)
LexN(s, i, n, acc) ==
    One({ IF n = 0 \/ j > Len(s) THEN [toks |-> acc, next |-> j]
          ELSE One({ LexN(s, one.next, n - 1, Append(acc, one.tok))
                     : one \in {LexOne(s, j)} })
          : j \in {SkipSpaces(s, i)} })

\* acc and the tokens of s from position i on, lexed ChunkLen at a time
RECURSIVE Lex(_, _, _)
Lex(s, i, acc) ==
    IF i > Len(s) THEN acc
    ELSE One({ Lex(s, c.next, c.toks) : c \in {LexN(s, i, ChunkLen, acc)} })

Fail == [ok |-> FALSE, val |-> PyStr(<<>>), next |-> 0]

TokAt(toks, i) == IF i <= Len(toks) THEN toks[i].t ELSE "eof"

\* adjacent string literals from token i on are one str
RECURSIVE ParseStrings(_, _, _)
ParseStrings(toks, i, acc) ==
    IF TokAt(toks, i) = "str" THEN ParseStrings(toks, i + 1, acc \o toks[i].s)
    ELSE [ok |-> TRUE, val |-> PyStr(acc), next |-> i]

RECURSIVE ParseValue(_, _), ParseList(_, _, _), ParseDict(_, _, _)

\* a str, list or dict display starting at token i
ParseValue(toks, i) ==
    CASE TokAt(toks, i) = "str" -> ParseStrings(toks, i, <<>>)
      [] TokAt(toks, i) = "[" -> ParseList(toks, i + 1, <<>>)
      [] TokAt(toks, i) = "{" -> ParseDict(toks, i + 1, <<>>)
      [] OTHER -> Fail

\* after an element or item ending before token i: "," and more, or the
\* closing bracket
AfterElement(toks, i, close) ==
    IF TokAt(toks, i) = "," THEN "more" ELSE IF TokAt(toks, i) = close THEN "end" ELSE "fail"

\* the elements of a list display after those in acc, up to its "]"
ParseList(toks, i, acc) ==
    IF TokAt(toks, i) = "]" THEN [ok |-> TRUE, val |-> PyList(acc), next |-> i + 1]
    ELSE One({
        IF ~v.ok THEN Fail
        ELSE CASE AfterElement(toks, v.next, "]") = "more" ->
                    ParseList(toks, v.next + 1, Append(acc, v.val))
               [] AfterElement(toks, v.next, "]") = "end" ->
                    [ok |-> TRUE, val |-> PyList(Append(acc, v.val)), next |-> v.next + 1]
               [] OTHER -> Fail
        : v \in {ParseValue(toks, i)} })

\* the key: value items of a dict display after those in acc, up to its "}"
ParseDict(toks, i, acc) ==
    IF TokAt(toks, i) = "}" THEN [ok |-> TRUE, val |-> PyDict(acc), next |-> i + 1]
    ELSE One({
        IF ~key.ok \/ TokAt(toks, key.next) # ":" THEN Fail
        ELSE One({
            IF ~v.ok THEN Fail
            ELSE CASE AfterElement(toks, v.next, "}") = "more" ->
                        ParseDict(toks, v.next + 1, Append(acc, <<key.val, v.val>>))
                   [] AfterElement(toks, v.next, "}") = "end" ->
                        [ok |-> TRUE, val |-> PyDict(Append(acc, <<key.val, v.val>>)),
                         next |-> v.next + 1]
                   [] OTHER -> Fail
            : v \in {ParseValue(toks, key.next + 1)} })
        : key \in {ParseValue(toks, i)} })

\* ast.literal_eval(s): the value, or not ok when it raises
literal_eval(s) ==
    One({ One({ IF v.ok /\ v.next = Len(toks) + 1 THEN v ELSE Fail
                : v \in {ParseValue(toks, 1)} })
          : toks \in {Lex(s, 1, <<>>)} })

----------------------------------------------------------------------------
(* get_json and read_box *)

\* query_element[x] after the replace of "'" by '"'
query_element(code, value) ==
    Replace(<<"{", "\"", "c", "o", "d", "e", "\"", ":", " ", "\"">> \o code \o <<"\"", ",", " ", "\"", "s", "e", "l", "e", "c", "t", "i", "o", "n", "\"", ":", " ", "{", "\"", "f", "i", "l", "t", "e", "r", "\"", ":", " ", "\"", "i", "t", "e", "m", "\"", ",", " ", "\"", "v", "a", "l", "u", "e", "s", "\"", ":", " ">>
                \o StrOfList(value) \o <<" ", "}", "}">>,
            "'", <<"\"">>)

\* the query text get_json assembles for the widgets ws and variables vs
query_text(ws, vs) ==
    LET elements == [x \in 1..Len(ws) |-> query_element(vs[x].code, ws[x].value)]
        all_elements == Replace(StrOfList(elements), "'", <<>>)
    IN  <<"{", "\"", "q", "u", "e", "r", "y", "\"", ":", " ">> \o all_elements \o <<" ", ",", " ", "\"", "r", "e", "s", "p", "o", "n", "s", "e", "\"", ":", " ", "{", "\"", "f", "o", "r", "m", "a", "t", "\"", ":", " ", "\"", "j", "s", "o", "n", "-", "s", "t", "a", "t", "\"", " ", "}", "}">>

\* the whole of get_json(box, out) on a session whose self.variables is vs
get_json(box, vs, out) ==
    LET nvars == Len(box.widgets) IN
    IF nvars > 0 /\ vs.isNone THEN [exc |-> "TypeError", ret |-> <<>>]
    ELSE IF nvars > 0 /\ Len(vs.v) < nvars THEN [exc |-> "IndexError", ret |-> <<>>]
    ELSE One({
        IF out # "dict" THEN [exc |-> "none", ret |-> query]
        ELSE One({ IF v.ok THEN [exc |-> "none", ret |-> v.val]
                   ELSE [exc |-> "SyntaxError", ret |-> <<>>]
                   : v \in {literal_eval(query)} })
        : query \in {query_text(box.widgets, vs.v)} })

GetJson(b, out) ==
    /\ \E r \in {get_json(boxes[b], variables, out)} :
        last' = Result("get_json", [box |-> boxes[b], out |-> out], r.exc, 0, 0, r.ret)
    /\ UNCHANGED <<language, furl, variables, time, boxes, history, phrase, searches>>

\* POST query to the data endpoint: the provider answers a query that names
\* values for every variable with a json-stat dataset, any other with an
\* error page
ServerPost(query) ==
    LET entries == query.items[1][2].items IN
    IF \A i \in 1..Len(entries) : entries[i].items[2][2].items[2][2].items # <<>>
    THEN [status |-> 200] ELSE [status |-> 400]

\* the whole of read_box(from_box): POST requests issued, message printed,
\* value returned
read_box(from_box, vs) ==
    One({
        IF q.exc # "none"
        THEN [posts |-> 0, printed |-> "You must make choices in the box!", ret |-> None]
        ELSE IF ServerPost(q.ret).status # 200
        THEN [posts |-> 1, printed |-> "You must make choices in the box!", ret |-> None]
        ELSE [posts |-> 1, printed |-> "", ret |-> Some(q.ret)]
        : q \in {get_json(from_box, vs, "dict")} })

ReadBox(b) ==
    /\ \E r \in {read_box(boxes[b], variables)} :
        last' = Result("read_box", [box |-> boxes[b], out |-> "dict"], "none", 0, r.posts,
                       [printed |-> r.printed, ret |-> r.ret])
    /\ UNCHANGED <<language, furl, variables, time, boxes, history, phrase, searches>>

----------------------------------------------------------------------------
(* fiksDato and prepare_dataframe.  A frame is its column names, in order,
   and the raw time strings of its second-to-last column, one per row; the
   date parser of the dataframe library is outside the model, so a parsed
   column is held as the strings handed to the parser. *)

DaysInMonth(y, m) ==
    IF m = 2 THEN (IF (y % 4 = 0 /\ y % 100 # 0) \/ y % 400 = 0 THEN 29 ELSE 28)
    ELSE IF m \in {4, 6, 9, 11} THEN 30 ELSE 31

\* fiksDato(dato): str of the month end pd.date_range(..., freq='M') yields
fiksDato(dato) ==
    LET hjdat == DigitVal(dato[6]) * 3
        hjdat2 == StrOfInt(hjdat)
        month == IF hjdat < 12 THEN SubSeq(dato, 1, 4) \o <<"-", "0">> \o hjdat2
                 ELSE SubSeq(dato, 1, 4) \o <<"-">> \o hjdat2
        day == DaysInMonth(DigitsValue(SubSeq(dato, 1, 4)), hjdat)
    IN  month \o <<"-">> \o StrOfInt(day) \o <<" ", "0", "0", ":", "0", "0", ":", "0", "0">>

Frame(columns, times) == [columns |-> columns, times |-> times]

\* the name self.time is set to in the branch taken for marker mark; in the
\* 'no' quarter branch the name goes to the local time_col and self.time keeps
\* the frame's column name
ClassifiedTime(l, mark, col) ==
    IF l = "no"
    THEN CASE mark = "M" -> "måned"
           [] mark = "U" -> "uke"
           [] mark = "K" -> col
           [] OTHER -> "år"
    ELSE CASE mark = "M" -> "month"
           [] mark = "U" -> "week"
           [] mark = "K" -> "quarter"
           [] OTHER -> "year"

\* the branch of the if/elif chain the first row's time string selects
Marker(first) ==
    IF Contains(first, "M") THEN "M"
    ELSE IF Contains(first, "U") THEN "U"
    ELSE IF Contains(first, "K") THEN "K" ELSE "none"

\* the time column as each branch rewrites it
Converted(mark, times) ==
    CASE mark = "M" -> [i \in 1..Len(times) |-> Replace(times[i], "M", <<"-">>)]
      [] mark = "U" -> [i \in 1..Len(times) |-> Replace(times[i], "U", <<"-">>) \o <<"-", "1">>]
      [] mark = "K" -> [i \in 1..Len(times) |-> fiksDato(times[i])]
      [] OTHER -> times

\* the local freq after the branch for mark: the week branches assign freg
freq(mark) ==
    CASE mark = "M" -> Some("M")
      [] mark = "U" -> None
      [] mark = "K" -> Some("q")
      [] OTHER -> Some("y")

\* the local periods after the branch for mark: the year branches assign none
periods(mark) ==
    CASE mark = "M" -> Some(12)
      [] mark = "U" -> Some(52)
      [] mark = "K" -> Some(4)
      [] OTHER -> None

InColumns(df, name) == \E i \in 1..Len(df.columns) : df.columns[i] = name

\* the whole of prepare_dataframe(df, val_col) for language l: the exception
\* raised, self.time afterwards, whether the classification was reached, and
\* the value returned
prepare_dataframe(l, df, val_col) ==
    LET col == df.columns[Len(df.columns) - 1]
        nothing == [df_ret |-> Frame(<<>>, <<>>), freq |-> "", periods |-> 0]
    IN
    IF ~InColumns(df, val_col) \/ df.times = <<>>
    THEN [exc |-> "KeyError", time |-> col, classified |-> FALSE, ret |-> nothing]
    ELSE LET mark == Marker(df.times[1])
             t == ClassifiedTime(l, mark, col)
         IN  IF ~InColumns(df, t)
             THEN [exc |-> "KeyError", time |-> t, classified |-> TRUE, ret |-> nothing]
             ELSE IF freq(mark).isNone \/ periods(mark).isNone
             THEN [exc |-> "UnboundLocalError", time |-> t, classified |-> TRUE,
                   ret |-> nothing]
             ELSE [exc |-> "none", time |-> t, classified |-> TRUE,
                   ret |-> [df_ret |-> Frame(<<"ds", "y">>, Converted(mark, df.times)),
                            freq |-> freq(mark).v, periods |-> periods(mark).v]]

\* the names the provider gives the time column, and one it does not
TimeColumns == {"month", "week", "quarter", "year", "måned", "uke", "kvartal", "år", "tid"}

\* the raw time strings of the frames callers pass
TimeRows ==
    {<<<<"2", "0", "2", "0", "M", "0", "3">>>>, <<<<"2", "0", "1", "9", "M", "1", "2">>, <<"2", "0", "2", "0", "M", "0", "1">>>>, <<<<"2", "0", "2", "0", "U", "1", "5">>>>,
     <<<<"2", "0", "2", "0", "K", "2">>>>, <<<<"2", "0", "1", "9", "K", "4">>, <<"2", "0", "2", "0", "K", "1">>>>, <<<<"2", "0", "2", "0">>>>, <<<<"2", "0", "1", "9">>, <<"2", "0", "2", "0">>>>}

Frames == {Frame(<<"region", c, "value">>, ts) : c \in TimeColumns, ts \in TimeRows}

PrepareDataframe(df, val_col) ==
    /\ \E r \in {prepare_dataframe(language, df, val_col)} :
        /\ time' = r.time
        /\ last' = Result("prepare_dataframe", [df |-> df, val_col |-> val_col],
                          r.exc, 0, 0, [classified |-> r.classified, ret |-> r.ret])
    /\ UNCHANGED <<language, furl, variables, boxes, history, phrase, searches>>

----------------------------------------------------------------------------
(* search *)

\* convert without its capital letters
convertLowerOnly ==
    << <<"æ", <<"%", "C", "3", "%", "A", "6">>>>, <<"ø", <<"%", "C", "3", "%", "B", "8">>>>, <<"å", <<"%", "C", "3", "%", "A", "5">>>>,
       <<"\"", <<"%", "2", "2">>>>, <<"(", <<"%", "2", "8">>>>, <<")", <<"%", "2", "9">>>>, <<" ", <<"%", "2", "0">>>> >>

\* convert, in the order the dict literal lists its items
convert ==
    << <<"æ", <<"%", "C", "3", "%", "A", "6">>>>, <<"Æ", <<"%", "C", "3", "%", "8", "6">>>>, <<"ø", <<"%", "C", "3", "%", "B", "8">>>>,
       <<"Ø", <<"%", "C", "3", "%", "9", "8">>>>, <<"å", <<"%", "C", "3", "%", "A", "5">>>>, <<"Å", <<"%", "C", "3", "%", "8", "5">>>>,
       <<"\"", <<"%", "2", "2">>>>, <<"(", <<"%", "2", "8">>>>, <<")", <<"%", "2", "9">>>>, <<" ", <<"%", "2", "0">>>> >>

\* for k, v in convert.items(): search_str = search_str.replace(k, v),
\* for the items from the n-th back to the first
RECURSIVE ApplyConvert(_, _)
ApplyConvert(search_str, n) ==
    IF n = 0 THEN search_str
    ELSE Replace(ApplyConvert(search_str, n - 1), convert[n][1], convert[n][2])

\* the URL search reads
search_str(l, p) ==
    ApplyConvert(base_url \o <<"/">> \o LangChars(l) \o <<"/", "t", "a", "b", "l", "e", "/", "?", "q", "u", "e", "r", "y", "=">> \o p, Len(convert))

\* the first and second ':'-separated parts of a title
SplitTitle(title) ==
    LET colons == {i \in 1..Len(title) : title[i] = ":"}
        c1 == CHOOSE i \in colons : \A j \in colons : i <= j
        after == {i \in colons : i > c1}
        c2 == IF after = {} THEN Len(title) + 1
              ELSE CHOOSE i \in after : \A j \in after : i <= j
    IN  [table_id |-> SubSeq(title, 1, c1 - 1), table_title |-> SubSeq(title, c1 + 1, c2 - 1)]

\* what the search endpoint may answer: no rows, or the matching tables
SearchAnswers == {<<>>, <<TableA.title, TableB.title>>}

\* the whole of search(phrase), the endpoint answering with rows: "No match"
\* printed and the empty frame returned, or one row per table, keyed by id
search(rows) ==
    IF Len(rows) = 0 THEN [printed |-> "No match", df |-> <<>>]
    ELSE [printed |-> "", df |-> [i \in 1..Len(rows) |-> SplitTitle(rows[i])]]

Search ==
    /\ Len(searches) < MaxSearches
    /\ searches' = Append(searches, search_str(language, phrase))
    /\ \E rows \in SearchAnswers : last' = Result("search", phrase, "none", 1, 0, search(rows))
    /\ UNCHANGED <<language, furl, variables, time, boxes, history, phrase>>

\* the characters of phrases
PhraseChars == {"æ", "Æ", "ø", "Ø", "å", "Å", "\"", "(", ")", " ", "a", "%"}

RECURSIVE Strings(_, _)
Strings(chars, n) ==
    IF n = 0 THEN {<<>>}
    ELSE LET shorter == Strings(chars, n - 1) IN
         shorter \cup {Append(s, c) : s \in {t \in shorter : Len(t) = n - 1}, c \in chars}

Phrases == Strings(PhraseChars, MaxPhraseLen)

----------------------------------------------------------------------------

\* the session after __init__, before any call
NewSession ==
    /\ language \in Languages
    /\ furl = None
    /\ variables = None
    /\ time = "None"
    /\ boxes = <<>>
    /\ history = <<>>
    /\ last = Result("init", NoneId, "none", 0, 0, <<>>)
    /\ searches = <<>>

(* The metadata, selection and query operations of one session. *)

Init == NewSession /\ phrase = <<>>

Next ==
    \/ \E table_id \in TableIds : GetVariables(table_id)
    \/ \E table_id \in TableIds : Select(table_id)
    \/ \E b \in 1..Len(boxes) : \E x \in 1..Len(boxes[b].widgets) :
          \E S \in SUBSET (1..Len(boxes[b].widgets[x].options)) : UserSelect(b, x, S)
    \/ \E b \in 1..Len(boxes) : \E out \in {"dict", "str"} : GetJson(b, out)
    \/ \E b \in 1..Len(boxes) : ReadBox(b)

Spec == Init /\ [][Next]_vars

(* One session searching for one phrase. *)

InitSearch == NewSession /\ phrase \in Phrases

NextSearch == Search

SpecSearch == InitSearch /\ [][NextSearch]_vars

(* One session reshaping fetched frames. *)

NextPrepare == \E df \in Frames : \E val_col \in {"value", "y"} : PrepareDataframe(df, val_col)

SpecPrepare == Init /\ [][NextPrepare]_vars

----------------------------------------------------------------------------
(* The claims. *)

\* C1: within one session, two metadata fetches (get_variables, directly or
\* through select) for the same parseable table identifier issue at most one
\* GET on the metadata endpoint between them.
C1_OneRequestPerTable ==
    \A i, j \in 1..Len(history) :
        (i < j /\ history[i].id = history[j].id /\ PyInt(history[i].id).exc = "none")
            => history[i].gets + history[j].gets <= 1

\* C2: after get_variables(t) with a parseable t, whatever was called before,
\* self.furl is '{base_url}/{language}/table/{normalized t}' and the variables
\* returned are those of that URL's table.
C2_UrlOfRequestedTable ==
    (last.op = "get_variables" /\ PyInt(last.arg).exc = "none")
        => LET url == MetadataUrl(base_url, language, Numb(last.arg).text) IN
           /\ furl = Some(url)
           /\ last.exc = "none" => last.ret = ServerGet(language, url).table.variables

\* C3: get_variables with an identifier int() cannot parse ends in an error
\* raised to the caller and issues no GET, whether or not a URL is cached.
C3_InvalidIdentifierNoRequest ==
    (last.op = "get_variables" /\ PyInt(last.arg).exc # "none")
        => (last.exc # "none" /\ last.gets = 0)

\* a 4-digit identifier, given as an int or as a str
FourDigits(table_id) ==
    \/ table_id.kind = "int" /\ Len(StrOfInt(table_id.n)) = 4
    \/ table_id.kind = "str" /\ Len(table_id.s) = 4 /\ PyInt(table_id).exc = "none"

\* a str of 5 digits
FiveDigits(table_id) ==
    table_id.kind = "str" /\ Len(table_id.s) = 5 /\ PyInt(table_id).exc = "none"

\* the digits an identifier is given with
GivenDigits(table_id) ==
    IF table_id.kind = "int" THEN StrOfInt(table_id.n) ELSE table_id.s

\* C4: the first get_variables of a session puts '0' and the 4 digits of a
\* 4-digit identifier, and a 5-digit identifier string unchanged (leading
\* zeros included), into the metadata URL.
C4_FiveDigitIdentifier ==
    (last.op = "get_variables" /\ Len(history) = 1)
        => /\ FourDigits(last.arg) =>
                furl = Some(MetadataUrl(base_url, language, <<"0">> \o GivenDigits(last.arg)))
           /\ FiveDigits(last.arg) =>
                furl = Some(MetadataUrl(base_url, language, last.arg.s))

\* the entry the query document is to hold for variable var and its widget
ExpectedEntry(var, widget) ==
    PyDict(<< <<PyStr(<<"c", "o", "d", "e">>), PyStr(var.code)>>,
              <<PyStr(<<"s", "e", "l", "e", "c", "t", "i", "o", "n">>),
                PyDict(<< <<PyStr(<<"f", "i", "l", "t", "e", "r">>), PyStr(<<"i", "t", "e", "m">>)>>,
                          <<PyStr(<<"v", "a", "l", "u", "e", "s">>),
                            PyList([i \in 1..Len(widget.value) |-> PyStr(widget.value[i])])>> >>)>> >>)

\* the query document for a box: one entry per variable of the box's table
ExpectedQuery(l, box) ==
    LET vs == ServerGet(l, box.url_text).table.variables IN
    PyDict(<< <<PyStr(<<"q", "u", "e", "r", "y">>),
                PyList([x \in 1..Len(vs) |-> ExpectedEntry(vs[x], box.widgets[x])])>>,
              <<PyStr(<<"r", "e", "s", "p", "o", "n", "s", "e">>),
                PyDict(<< <<PyStr(<<"f", "o", "r", "m", "a", "t">>), PyStr(<<"j", "s", "o", "n", "-", "s", "t", "a", "t">>)>> >>)>> >>)

\* C5: get_json on a box an earlier select returned yields the query document
\* with one entry per variable of the box's table: its code, filter "item" and
\* exactly the machine values selected, [] for an empty selection.
C5_QueryDocument ==
    (last.op = "get_json" /\ last.arg.out = "dict")
        => (last.exc = "none" /\ last.ret = ExpectedQuery(language, last.arg.box))

\* C6: read_box on a box with an empty selection prints a message and issues
\* no POST.
C6_NoPostWhenIncomplete ==
    (last.op = "read_box"
        /\ \E x \in 1..Len(last.arg.box.widgets) : last.arg.box.widgets[x].value = <<>>)
        => (last.posts = 0 /\ last.ret.printed # "")

\* the granularity name of a marker in a locale
GranularityName(l, mark) ==
    IF l = "en"
    THEN CASE mark = "M" -> "month" [] mark = "U" -> "week"
           [] mark = "K" -> "quarter" [] OTHER -> "year"
    ELSE CASE mark = "M" -> "måned" [] mark = "U" -> "uke"
           [] mark = "K" -> "kvartal" [] OTHER -> "år"

\* a frame as the provider's data arrives: the time column carries the
\* locale's name of the granularity of its rows
ProviderFrame(l, df) ==
    df.columns[Len(df.columns) - 1] = GranularityName(l, Marker(df.times[1]))

\* C7: for either language and a first-row marker M, U, K or none,
\* prepare_dataframe returns a triple with frequency/periods M/12, W/52, q/4,
\* and frequency y for a year.
C7_FrequencyAndPeriods ==
    (last.op = "prepare_dataframe" /\ last.arg.val_col = "value"
        /\ ProviderFrame(language, last.arg.df))
        => LET mark == Marker(last.arg.df.times[1])
               r == last.ret.ret
           IN  /\ last.exc = "none"
               /\ mark = "M" => (r.freq = "M" /\ r.periods = 12)
               /\ mark = "U" => (r.freq = "W" /\ r.periods = 52)
               /\ mark = "K" => (r.freq = "q" /\ r.periods = 4)
               /\ mark = "none" => r.freq = "y"

\* C8: for every variable of the resolved table and every index i, its widget
\* offers the option (valueTexts[i], values[i]), and as many options as the
\* variable has values.
C8_OptionsAligned ==
    \A b \in 1..Len(boxes) : \A x \in 1..Len(boxes[b].widgets) :
        LET var == variables.v[x]
            options == boxes[b].widgets[x].options
        IN  /\ Len(options) = Len(var.values)
            /\ \A i \in 1..Len(var.values) :
                  \E j \in 1..Len(options) : options[j] = <<var.valueTexts[i], var.values[i]>>

\* the characters the encoding is to remove
Special == {" ", "(", ")", "\"", "æ", "Æ", "ø", "Ø", "å", "Å"}

\* C9: the search URL just built for the phrase is the string built for it
\* the first time; applying the substitution table to it changes nothing; it
\* holds no space, parenthesis, double quote or extended letter.
C9_EncodingIdempotent ==
    searches # <<>> =>
        \E url \in {searches[Len(searches)]} :
            /\ url = searches[1]
            /\ ApplyConvert(url, Len(convert)) = url
            /\ \A n \in 1..Len(url) : url[n] \notin Special

\* a phrase with a space and an extended letter has been searched for twice
C9_Witness ==
    /\ Len(searches) >= 2
    /\ Contains(phrase, " ")
    /\ Contains(phrase, "Å")

\* C10: once prepare_dataframe has classified the granularity, self.time is
\* the locale's name of it: month/week/quarter/year, or måned/uke/kvartal/år.
C10_DetectedTimeField ==
    (last.op = "prepare_dataframe" /\ last.ret.classified)
        => time = GranularityName(language, Marker(last.arg.df.times[1]))

====
